---------------------------- MODULE Spec2Model ----------------------------
(***************************************************************************)
(* Model of the Checklist block tool (src/src/index.js).                   *)
(*                                                                         *)
(* The state is the DOM the tool owns: the ordered item elements of the    *)
(* wrapper, each with the child nodes of its text field, its "checked"     *)
(* class, its data-level and the padding-left last assigned to it; the     *)
(* selection (focused item, focus node, focus offset); and what the last   *)
(* handler did (its branch, the state it started from, the host calls it   *)
(* made).                                                                  *)
(*                                                                         *)
(* A text field's content is a sequence of child nodes: text nodes, which  *)
(* hold characters, and <br> elements, which stand for inline markup.  A   *)
(* markup string (innerHTML, a persisted text) is a sequence of tokens:    *)
(* characters and "br".                                                    *)
(***************************************************************************)
EXTENDS Integers, Sequences, FiniteSets, TLC

VARIABLES
    items,      \* this.items: the item elements of the wrapper, in DOM order
    caret,      \* document.activeElement / window.getSelection()
    readOnly,   \* this.readOnly
    loaded,     \* options.data as render read it; kept while nothing can edit
    bound,      \* the wrapper's keydown and click listeners are attached
    last,       \* the branch the last handler took
    pre,        \* the items and the selection the last handler started from
    hostCalls,  \* the calls on this.api made by the last handler, in order
    api         \* the last call of save() / validate() and its result

vars == <<items, caret, readOnly, loaded, bound, last, pre, hostCalls, api>>

---------------------------------------------------------------------------
(* Bounds of the model *)

\* The size of a list is the number of its items, plus the tokens (characters
\* and <br>) of their texts, plus their levels.  Loaded lists and the edits
\* that grow the list (typing, Enter-split, Tab) stay within MaxSize.
MaxSize == 4

\* The values getCurrentBlockIndex() is drawn from.
BlockIndexes == {0, 1}

Chars == {"a", " "}
Tokens == Chars \cup {"br"}

---------------------------------------------------------------------------
(* Text field content: child nodes and markup strings *)

TextNode(s) == [t |-> "text", s |-> s]
BrNode == [t |-> "br", s |-> <<>>]

\* el.innerHTML read: the markup string of a node list.
RECURSIVE InnerHTML(_)
InnerHTML(nodes) ==
    IF nodes = <<>> THEN <<>>
    ELSE (IF Head(nodes).t = "br" THEN <<"br">> ELSE Head(nodes).s)
         \o InnerHTML(Tail(nodes))

\* el.innerHTML = html: the parser makes one text node of every maximal run
\* of characters and one element of every tag.
RECURSIVE ParseHTML(_)
ParseHTML(html) ==
    IF html = <<>> THEN <<>>
    ELSE LET rest == ParseHTML(Tail(html))
             h == Head(html)
         IN  IF h = "br" THEN <<BrNode>> \o rest
             ELSE IF rest # <<>> /\ Head(rest).t = "text"
                  THEN <<TextNode(<<h>> \o Head(rest).s)>> \o Tail(rest)
                  ELSE <<TextNode(<<h>>)>> \o rest

getHTML(nodes) == InnerHTML(nodes)

fragmentToHtml(fragment) == InnerHTML(fragment)

\* String.prototype.trim on a markup string.
RECURSIVE TrimLeft(_)
TrimLeft(s) ==
    IF s # <<>> /\ Head(s) = " " THEN TrimLeft(Tail(s)) ELSE s

RECURSIVE TrimRight(_)
TrimRight(s) ==
    IF s # <<>> /\ s[Len(s)] = " " THEN TrimRight(SubSeq(s, 1, Len(s) - 1)) ELSE s

Trim(s) == TrimRight(TrimLeft(s))

---------------------------------------------------------------------------
(* The selection *)

\* item = 0: the focused element / event target is inside no checklist item.
\* node = 0: the focus node is the text field itself and off counts its child
\* nodes; node = n > 0: the focus node is the n-th child, a text node, and off
\* counts its characters.  off is selection.focusOffset.
NoCaret == [item |-> 0, node |-> 0, off |-> 0]

CaretsIn(i, nodes) ==
    {[item |-> i, node |-> 0, off |-> c] : c \in 0..Len(nodes)}
    \cup UNION {{[item |-> i, node |-> n, off |-> k] : k \in 0..Len(nodes[n].s)} :
                  n \in {m \in 1..Len(nodes) : nodes[m].t = "text"}}

\* The content of the focused text field strictly before the caret: what
\* extractContentAfterCaret leaves in place.
ContentBeforeCaret(nodes, c) ==
    IF c.node = 0 THEN SubSeq(nodes, 1, c.off)
    ELSE SubSeq(nodes, 1, c.node - 1)
         \o (IF c.off > 0
             THEN <<TextNode(SubSeq(nodes[c.node].s, 1, c.off))>> ELSE <<>>)

\* The fragment extractContentAfterCaret returns: the content strictly after
\* the caret, a partially selected text node cut at the caret.
extractContentAfterCaret(nodes, c) ==
    IF c.node = 0 THEN SubSeq(nodes, c.off + 1, Len(nodes))
    ELSE (IF c.off < Len(nodes[c.node].s)
          THEN <<TextNode(SubSeq(nodes[c.node].s, c.off + 1, Len(nodes[c.node].s)))>>
          ELSE <<>>)
         \o SubSeq(nodes, c.node + 1, Len(nodes))

RECURSIVE TokenCount(_)
TokenCount(nodes) ==
    IF nodes = <<>> THEN 0
    ELSE (IF Head(nodes).t = "br" THEN 1 ELSE Len(Head(nodes).s))
         + TokenCount(Tail(nodes))

\* The caret's offset in the region: the characters and elements before it.
CaretPos(nodes, c) ==
    IF c.node = 0 THEN TokenCount(SubSeq(nodes, 1, c.off))
    ELSE TokenCount(SubSeq(nodes, 1, c.node - 1)) + c.off

---------------------------------------------------------------------------
(* Item elements *)

\* A JavaScript value that is a number or undefined.
Undefined == [def |-> FALSE, n |-> 0]
Num(n) == [def |-> TRUE, n |-> n]

\* Mutant: the padding is the level, not twice the level.
getTabPaddingUnscaled(level) ==
    IF level.def THEN [k |-> "em", n |-> level.n] ELSE [k |-> "NaNem", n |-> 0]

\* The string assigned to style.paddingLeft: n em, or "NaNem".
getTabPadding(level) ==
    IF level.def THEN [k |-> "em", n |-> level.n * 2] ELSE [k |-> "NaNem", n |-> 0]

\* The item's left inset in em.  A new element has none; an assignment to
\* style.paddingLeft of a string that is no valid padding (NaNem, a negative
\* length) is dropped by the style declaration and the inset stays.
NoPadding == 0

AssignPadding(old, value) ==
    IF value.k = "em" /\ value.n >= 0 THEN value.n ELSE old

getLevel(item) == item.level

setLevel(item, level) ==
    [item EXCEPT !.level = IF level.def /\ level.n # 0 THEN level.n ELSE 0,
                 !.pad = AssignPadding(item.pad, getTabPadding(level))]

\* A persisted item: each field is present (has) or absent.
createChecklistItem(item) ==
    setLevel([nodes |-> ParseHTML(IF item.text.has THEN item.text.v ELSE <<>>),
              checked |-> item.checked.has /\ item.checked.v,
              level |-> 0,
              pad |-> NoPadding],
             item.level)

Present(v) == [has |-> TRUE, v |-> v]

ItemData(text, checked, level) ==
    [text |-> Present(text), checked |-> Present(checked), level |-> Num(level)]

DefaultItemData == ItemData(<<>>, FALSE, 0)

RECURSIVE TotalTokens(_)
TotalTokens(els) ==
    IF els = <<>> THEN 0 ELSE TokenCount(Head(els).nodes) + TotalTokens(Tail(els))

RECURSIVE TotalLevel(_)
TotalLevel(els) ==
    IF els = <<>> THEN 0 ELSE Head(els).level + TotalLevel(Tail(els))

Size(els) == Len(els) + TotalTokens(els) + TotalLevel(els)

---------------------------------------------------------------------------
(* Loading: constructor and render *)

TokenSeqs(b) == UNION {[1..k -> Tokens] : k \in 0..b}

\* The size a persisted item adds to the list.
DataSize(it) == 1 + Len(it.text.v) + it.level.n

RECURSIVE ArraySize(_)
ArraySize(arr) == IF arr = <<>> THEN 0 ELSE DataSize(Head(arr)) + ArraySize(Tail(arr))

\* The persisted items of size at most b that have all three fields.
ItemOpts(b) ==
    {it \in [text : {Present(t) : t \in TokenSeqs(b - 1)},
             checked : {Present(c) : c \in BOOLEAN},
             level : {Num(n) : n \in 0..(b - 1)}] : DataSize(it) <= b}

\* The persisted item without the fields named in missing.
Fields == {"text", "checked", "level"}

Omit(it, missing) ==
    [text |-> IF "text" \in missing THEN [has |-> FALSE, v |-> <<>>] ELSE it.text,
     checked |-> IF "checked" \in missing THEN [has |-> FALSE, v |-> FALSE] ELSE it.checked,
     level |-> IF "level" \in missing THEN Undefined ELSE it.level]

\* The shapes of options.data.items: absent (also when data itself is
\* absent), a falsy value, a truthy value that is no array, an array.
ItemsKinds == {"absent", "falsy", "notArray", "array"}

\* Mutant: render creates no first empty item.
DataItemsNoDefault(data) == data.items

\* this.data.items after the default of render is applied.
DataItems(data) ==
    IF data.kind \in {"absent", "falsy"} THEN <<DefaultItemData>> ELSE data.items

\* forEach exists on arrays only.
RenderThrows(data) == data.kind = "notArray"

Render(data) ==
    IF RenderThrows(data) THEN <<>>
    ELSE [i \in 1..Len(DataItems(data)) |-> createChecklistItem(DataItems(data)[i])]

\* pre before any handler ran.  target: the item the event's target is in (0:
\* none); split: the items before the Enter-split that a Backspace-merge
\* directly follows.
NoPre == [items |-> <<>>, caret |-> NoCaret, target |-> 0, split |-> <<>>]

NoCall == [op |-> "none", arg |-> <<>>, res |-> <<>>, ok |-> FALSE]

\* loaded once the list may differ from what was loaded.
NoData == [kind |-> "none", items |-> <<>>]

\* Mutant: the listeners are attached in read-only mode too.
BindsEventsAlways(data, ro) == ~RenderThrows(data)

\* render attaches the keydown and click listeners unless read-only mode is
\* on; it attaches nothing when forEach threw before.
BindsEvents(data, ro) == ~ro /\ ~RenderThrows(data)

Load(data, ro) ==
    /\ items = Render(data)
    /\ readOnly = ro
    /\ loaded = data
    /\ bound = BindsEvents(data, ro)
    /\ caret = NoCaret
    /\ last = IF RenderThrows(data) THEN "loadThrow"
              ELSE IF data.kind = "array" THEN "load" ELSE "loadDefault"
    /\ pre = NoPre
    /\ hostCalls = <<>>
    /\ api = NoCall

\* The tool is constructed and rendered once, on any persisted data within
\* the size bound.  Items are created one by one, so arrays in which one item
\* lacks fields stand for all arrays with incomplete items.
Init ==
    \E ro \in BOOLEAN :
        \/ \E k \in ItemsKinds \ {"array"} : Load([kind |-> k, items |-> <<>>], ro)
        \/ \E n \in 0..MaxSize :
             \E arr \in [1..n -> ItemOpts(MaxSize - n + 1)] :
                /\ ArraySize(arr) <= MaxSize
                /\ \/ Load([kind |-> "array", items |-> arr], ro)
                   \/ \E i \in 1..n, missing \in SUBSET Fields :
                        Load([kind |-> "array",
                              items |-> [arr EXCEPT ![i] = Omit(@, missing)]], ro)

---------------------------------------------------------------------------
(* Sequence helpers *)

InsertAfter(seq, i, e) == SubSeq(seq, 1, i) \o <<e>> \o SubSeq(seq, i + 1, Len(seq))

RemoveAt(seq, i) == SubSeq(seq, 1, i - 1) \o SubSeq(seq, i + 1, Len(seq))

---------------------------------------------------------------------------
(* Native editing of the focused text field (contentEditable) *)

\* The caret as the editing surface sees it: inside the adjacent text node
\* when the selection is anchored in the text field itself.
NormCaret(nodes, c) ==
    IF c.node > 0 THEN c
    ELSE IF c.off >= 1 /\ nodes[c.off].t = "text"
         THEN [c EXCEPT !.node = c.off, !.off = Len(nodes[c.off].s)]
    ELSE IF c.off < Len(nodes) /\ nodes[c.off + 1].t = "text"
         THEN [c EXCEPT !.node = c.off + 1, !.off = 0]
    ELSE c

\* Typing the character ch at the caret: the new nodes and the new caret.
InsertChar(nodes, c, ch) ==
    LET nc == NormCaret(nodes, c) IN
    IF nc.node > 0
    THEN LET s == nodes[nc.node].s IN
         [nodes |-> [nodes EXCEPT ![nc.node] =
                        TextNode(SubSeq(s, 1, nc.off) \o <<ch>> \o SubSeq(s, nc.off + 1, Len(s)))],
          caret |-> [nc EXCEPT !.off = nc.off + 1]]
    ELSE [nodes |-> SubSeq(nodes, 1, nc.off) \o <<TextNode(<<ch>>)>>
                    \o SubSeq(nodes, nc.off + 1, Len(nodes)),
          caret |-> [nc EXCEPT !.node = nc.off + 1, !.off = 1]]

\* The caret moved to the end of the previous text node when it is at the
\* start of a text node that follows another text node.
DeleteCaret(nodes, c) ==
    LET nc == NormCaret(nodes, c) IN
    IF nc.node > 1 /\ nc.off = 0 /\ nodes[nc.node - 1].t = "text"
    THEN [nc EXCEPT !.node = nc.node - 1, !.off = Len(nodes[nc.node - 1].s)]
    ELSE nc

CanDelete(nodes, c) == CaretPos(nodes, c) > 0

\* Deleting the character or element before the caret; a text node left
\* empty is removed.
DeleteBefore(nodes, c) ==
    LET dc == DeleteCaret(nodes, c) IN
    IF dc.node > 0 /\ dc.off > 0
    THEN LET s == nodes[dc.node].s IN
         IF Len(s) = 1
         THEN [nodes |-> RemoveAt(nodes, dc.node),
               caret |-> [dc EXCEPT !.node = 0, !.off = dc.node - 1]]
         ELSE [nodes |-> [nodes EXCEPT ![dc.node] =
                            TextNode(SubSeq(s, 1, dc.off - 1) \o SubSeq(s, dc.off + 1, Len(s)))],
               caret |-> [dc EXCEPT !.off = dc.off - 1]]
    ELSE IF dc.node > 0
    THEN \* at the start of a text node that follows an element
         [nodes |-> RemoveAt(nodes, dc.node - 1),
          caret |-> [dc EXCEPT !.node = dc.node - 1]]
    ELSE \* anchored in the text field, after an element
         [nodes |-> RemoveAt(nodes, dc.off),
          caret |-> [dc EXCEPT !.off = dc.off - 1]]

---------------------------------------------------------------------------
(* save and validate *)

ItemToData(el) ==
    [text |-> getHTML(el.nodes), checked |-> el.checked, level |-> getLevel(el)]

\* Mutant: the text is not trimmed before its length is taken.
IsNotEmptyUntrimmed(item) == Len(item.text) # 0

IsNotEmpty(item) == Len(Trim(item.text)) # 0

Save(els) ==
    [items |-> SelectSeq([i \in 1..Len(els) |-> ItemToData(els[i])], IsNotEmpty)]

\* Mutant: the array itself is tested, and an array is always truthy.
validateArray(savedData) == TRUE

validate(savedData) == Len(savedData.items) # 0

---------------------------------------------------------------------------
(* The handlers' effects on the item elements *)

\* Mutant: the checked class is added, not toggled.
ToggleItemChecked(el, part) ==
    IF part = "checkbox" THEN [el EXCEPT !.checked = TRUE] ELSE el

\* toggleCheckbox, target inside item i: part is where in the item.
ToggleItem(el, part) ==
    IF part = "checkbox" THEN [el EXCEPT !.checked = ~el.checked] ELSE el

\* Mutant: the new level is not floored at 0.
updateLevelUnfloored(el, delta) == setLevel(el, Num(getLevel(el) + delta))

\* Mutant: the new level is capped at 1.
updateLevelCapped(el, delta) ==
    LET oldLevel == getLevel(el)
        newLevel == IF oldLevel + delta > 0 THEN oldLevel + delta ELSE 0
    IN  setLevel(el, Num(IF newLevel > 1 THEN 1 ELSE newLevel))

\* updateLevel on the item element.
updateLevel(el, delta) ==
    LET oldLevel == getLevel(el)
        newLevel == IF oldLevel + delta > 0 THEN oldLevel + delta ELSE 0
    IN  setLevel(el, Num(newLevel))

\* Mutant: the level is reduced in items other than the last only.
EnterDecrementsNotLast(els, c) ==
    /\ getLevel(els[c.item]) > 0
    /\ Len(getHTML(els[c.item].nodes)) = 0
    /\ c.item # Len(els)

\* enterPressed, first branch.
EnterDecrements(els, c) ==
    /\ getLevel(els[c.item]) > 0
    /\ Len(getHTML(els[c.item].nodes)) = 0

\* Mutant: any empty item leaves the checklist, the last or not.
EnterExitsAnyEmpty(els, c) ==
    /\ ~EnterDecrements(els, c)
    /\ Len(getHTML(els[c.item].nodes)) = 0

\* enterPressed, second branch.
EnterExits(els, c) ==
    /\ ~EnterDecrements(els, c)
    /\ c.item = Len(els)
    /\ Len(getHTML(els[c.item].nodes)) = 0

\* enterPressed, the item created by the split.
NewItem(els, c) ==
    createChecklistItem(
        [text |-> Present(fragmentToHtml(extractContentAfterCaret(els[c.item].nodes, c))),
         checked |-> Present(FALSE),
         level |-> Num(getLevel(els[c.item]))])

\* Mutant: the new item is appended to the wrapper.
SplitItemsAppended(els, c) ==
    Append([els EXCEPT ![c.item].nodes = ContentBeforeCaret(els[c.item].nodes, c)],
           NewItem(els, c))

\* enterPressed, third branch: the content after the caret is cut from the
\* current item and the new item is inserted before its next sibling.
SplitItems(els, c) ==
    InsertAfter([els EXCEPT ![c.item].nodes = ContentBeforeCaret(els[c.item].nodes, c)],
                c.item, NewItem(els, c))

\* enterPressed, first branch: setLevel(currentItem, itemLevel - 1).
DecrementItems(els, c) ==
    [els EXCEPT ![c.item] = setLevel(@, Num(getLevel(els[c.item]) - 1))]

\* Mutant: the current item is not removed.
ExitItemsKept(els, c) == els

\* Mutant: every item is removed.
ExitItemsAll(els, c) == <<>>

\* enterPressed, second branch: currentItem.remove(), then the two host calls.
ExitItems(els, c) == RemoveAt(els, c.item)

\* Mutant: the focus request comes before the insert request.
ExitCallsFocusFirst(currentBlockIndex) ==
    <<[op |-> "setToBlock", index |-> currentBlockIndex + 1],
      [op |-> "insert", index |-> 0]>>

ExitCalls(currentBlockIndex) ==
    <<[op |-> "insert", index |-> 0],
      [op |-> "setToBlock", index |-> currentBlockIndex + 1]>>

\* backspace: the guards of its two early returns.
HasPrevItem(els, c) == c.item > 1

CaretAtTheBeginning(c) == c.off = 0

\* backspace: the fragment after the caret is appended to the previous
\* item's text field and the current item is removed.
\* Mutant: the fragment is put before the previous item's content.
MergeItemsPrepended(els, c) ==
    RemoveAt([els EXCEPT ![c.item - 1].nodes =
                  extractContentAfterCaret(els[c.item].nodes, c) \o @],
             c.item)

\* Mutant: the current item is not removed.
MergeItemsKept(els, c) ==
    [els EXCEPT ![c.item - 1].nodes = @ \o extractContentAfterCaret(els[c.item].nodes, c),
                ![c.item].nodes = ContentBeforeCaret(els[c.item].nodes, c)]

MergeItems(els, c) ==
    RemoveAt([els EXCEPT ![c.item - 1].nodes =
                  @ \o extractContentAfterCaret(els[c.item].nodes, c)],
             c.item)

---------------------------------------------------------------------------
(* Actions: one per branch of each handler *)

InItem == caret.item > 0

\* What every handler leaves behind: its branch, the state it started from
\* and the host calls it made.
Handled(branch, target, calls) ==
    /\ last' = branch
    /\ pre' = [items |-> items, caret |-> caret, target |-> target,
               split |-> IF branch = "backspaceMerge" /\ last = "enterSplit"
                         THEN pre.items ELSE <<>>]
    /\ hostCalls' = calls
    /\ api' = NoCall
    /\ loaded' = IF readOnly THEN loaded ELSE NoData
    /\ UNCHANGED <<readOnly, bound>>

\* What the user's own edits leave behind.
Edited(event) ==
    /\ last' = event
    /\ pre' = NoPre
    /\ hostCalls' = <<>>
    /\ api' = NoCall
    /\ loaded' = IF readOnly THEN loaded ELSE NoData
    /\ UNCHANGED <<readOnly, bound>>

\* enterPressed with document.activeElement inside no item: closest()
\* yields null and getLevel(null) throws.
EnterThrows ==
    /\ bound /\ ~InItem
    /\ Handled("enterThrow", 0, <<>>)
    /\ UNCHANGED <<items, caret>>

EnterDecrement ==
    /\ bound /\ InItem
    /\ EnterDecrements(items, caret)
    /\ items' = DecrementItems(items, caret)
    /\ Handled("enterDecrement", caret.item, <<>>)
    /\ UNCHANGED caret

\* The removed item held the focus; the host is asked for a new block and to
\* put the caret in the block after this one.
EnterExit ==
    /\ bound /\ InItem
    /\ EnterExits(items, caret)
    /\ items' = ExitItems(items, caret)
    /\ caret' = NoCaret
    /\ \E currentBlockIndex \in BlockIndexes :
         Handled("enterExit", caret.item, ExitCalls(currentBlockIndex))

EnterSplit ==
    /\ bound /\ InItem
    /\ ~EnterDecrements(items, caret) /\ ~EnterExits(items, caret)
    /\ Size(items) < MaxSize
    /\ items' = SplitItems(items, caret)
    /\ caret' = [item |-> caret.item + 1, node |-> 0, off |-> 0]
    /\ Handled("enterSplit", caret.item, <<>>)

BackspaceNoPrev ==
    /\ bound
    /\ ~HasPrevItem(items, caret)
    /\ Handled(IF InItem THEN "backspaceFirst" ELSE "backspaceOutside", caret.item, <<>>)
    /\ UNCHANGED <<items, caret>>

BackspaceNotAtStart ==
    /\ bound
    /\ HasPrevItem(items, caret) /\ ~CaretAtTheBeginning(caret)
    /\ Handled("backspaceNotAtStart", caret.item, <<>>)
    /\ UNCHANGED <<items, caret>>

BackspaceMerge ==
    /\ bound
    /\ HasPrevItem(items, caret) /\ CaretAtTheBeginning(caret)
    /\ items' = MergeItems(items, caret)
    /\ caret' = [item |-> caret.item - 1, node |-> 0,
                 off |-> Len(items[caret.item - 1].nodes)]
    /\ Handled("backspaceMerge", caret.item, <<>>)

\* tab: event.target.parentElement is the item when the target is its text
\* field.
Tab ==
    /\ bound /\ InItem
    /\ Size(items) < MaxSize
    /\ items' = [items EXCEPT ![caret.item] = updateLevel(@, 1)]
    /\ Handled("tab", caret.item, <<>>)
    /\ UNCHANGED caret

ShiftTab ==
    /\ bound /\ InItem
    /\ items' = [items EXCEPT ![caret.item] = updateLevel(@, -1)]
    /\ Handled("shiftTab", caret.item, <<>>)
    /\ UNCHANGED caret

\* tab and shiftTab with a target outside every item: parentElement is an
\* element of the host, and it is that element whose level is set.
TabOutside ==
    /\ bound /\ ~InItem
    /\ \E delta \in {-1, 1} :
         Handled(IF delta = 1 THEN "tabOutside" ELSE "shiftTabOutside", 0, <<>>)
    /\ UNCHANGED <<items, caret>>

ClickParts == {"checkbox", "text", "item"}

\* toggleCheckbox, target inside item i.
Click ==
    /\ bound
    /\ \E i \in 1..Len(items), part \in ClickParts :
         /\ items' = [items EXCEPT ![i] = ToggleItem(@, part)]
         /\ Handled(IF part = "checkbox" THEN "toggle" ELSE "clickNoToggle", i, <<>>)
    /\ UNCHANGED caret

\* toggleCheckbox, target inside no item: closest() yields null and
\* null.querySelector throws.
ClickThrows ==
    /\ bound
    /\ Handled("clickThrow", 0, <<>>)
    /\ UNCHANGED <<items, caret>>

KeyEvents == {"enter", "backspace", "tab", "shiftTab"}

\* A key press or a click on a wrapper that has no listeners, whatever its
\* target: no handler runs, and what the last handler or call left stays.
Unhandled ==
    /\ ~bound
    /\ \E event \in KeyEvents \cup {"click"} :
         last' = IF event = "click" THEN "unhandledClick" ELSE "unhandledKey"
    /\ UNCHANGED <<items, caret, readOnly, loaded, bound, pre, hostCalls, api>>

\* The user places the caret in an item's text field, or takes the focus
\* away from the checklist.
MoveCaret ==
    /\ ~readOnly
    /\ \/ caret' = NoCaret
       \/ \E i \in 1..Len(items) : caret' \in CaretsIn(i, items[i].nodes)
    /\ Edited("caret")
    /\ UNCHANGED items

\* The user types a character into the focused text field.
TypeChar ==
    /\ ~readOnly /\ InItem
    /\ Size(items) < MaxSize
    /\ \E ch \in Chars :
         LET r == InsertChar(items[caret.item].nodes, caret, ch) IN
         /\ items' = [items EXCEPT ![caret.item].nodes = r.nodes]
         /\ caret' = r.caret
    /\ Edited("type")

\* The text field deletes what is before the caret: the default action of a
\* Backspace the handler did not prevent, among others.
DeleteChar ==
    /\ ~readOnly /\ InItem
    /\ CanDelete(items[caret.item].nodes, caret)
    /\ LET r == DeleteBefore(items[caret.item].nodes, caret) IN
         /\ items' = [items EXCEPT ![caret.item].nodes = r.nodes]
         /\ caret' = r.caret
    /\ Edited("delete")

\* What a call of the host into the tool leaves behind; it has no target.
Called(method, call) ==
    /\ last' = method
    /\ pre' = [NoPre EXCEPT !.items = items, !.caret = caret]
    /\ hostCalls' = <<>>
    /\ api' = call
    /\ loaded' = IF readOnly THEN loaded ELSE NoData
    /\ UNCHANGED <<items, caret, readOnly, bound>>

CallSave ==
    Called("save", [op |-> "save", arg |-> <<>>, res |-> Save(items).items, ok |-> FALSE])

\* validate is called with what save() returns now, or with empty data.
CallValidate ==
    \E savedData \in {Save(items), [items |-> <<>>]} :
        Called("validate", [op |-> "validate", arg |-> savedData.items, res |-> <<>>,
                            ok |-> validate(savedData)])

Next ==
    \/ EnterThrows \/ EnterDecrement \/ EnterExit \/ EnterSplit
    \/ BackspaceNoPrev \/ BackspaceNotAtStart \/ BackspaceMerge
    \/ Tab \/ ShiftTab \/ TabOutside
    \/ Click \/ ClickThrows \/ Unhandled
    \/ MoveCaret \/ TypeChar \/ DeleteChar
    \/ CallSave \/ CallValidate

Spec == Init /\ [][Next]_vars

---------------------------------------------------------------------------
(* conversionConfig: export and import, applied by the host to data *)

\* The characters of a plain string: those of a text, and the dot.
StringTokens == Tokens \cup {"."}

Strings(b) == UNION {[1..k -> StringTokens] : k \in 0..b}

\* Array.prototype.join: an element that is undefined joins as "".
RECURSIVE Join(_, _)
Join(texts, separator) ==
    IF texts = <<>> THEN <<>>
    ELSE (IF Head(texts).has THEN Head(texts).v ELSE <<>>)
         \o (IF Tail(texts) = <<>> THEN <<>> ELSE separator \o Join(Tail(texts), separator))

\* Mutant: the texts are concatenated with nothing between them.
exportNoSeparator(data) ==
    Join([i \in 1..Len(data.items) |-> data.items[i].text], <<>>)

\* conversionConfig.export
export(data) ==
    Join([i \in 1..Len(data.items) |-> data.items[i].text], <<".", " ">>)

\* conversionConfig.import; named import in the source.
importString(string) ==
    [kind |-> "array", items |-> <<ItemData(string, FALSE, 0)>>]

\* The tool class with checklist data at hand: no instance, no items.
ConvLoad(data) ==
    /\ loaded = data
    /\ items = <<>>
    /\ caret = NoCaret
    /\ readOnly = FALSE
    /\ bound = FALSE
    /\ last = "conversionConfig"
    /\ pre = NoPre
    /\ hostCalls = <<>>
    /\ api = NoCall

\* The data handed to export: of any size, as a list, up to MaxSize.
ConvInit ==
    \E n \in 0..MaxSize :
        \E arr \in [1..n -> ItemOpts(MaxSize - n + 1)] :
           /\ ArraySize(arr) <= MaxSize
           /\ \/ ConvLoad([kind |-> "array", items |-> arr])
              \/ \E i \in 1..n, missing \in SUBSET Fields :
                   ConvLoad([kind |-> "array",
                             items |-> [arr EXCEPT ![i] = Omit(@, missing)]])

\* The host exports the data at hand.
Export ==
    /\ last' = "export"
    /\ api' = [op |-> "export", arg |-> <<>>, res |-> export(loaded), ok |-> FALSE]
    /\ UNCHANGED <<items, caret, readOnly, loaded, bound, pre, hostCalls>>

\* The host imports a string: one exported before, or any other.  The data
\* returned is the data at hand from then on.
Import ==
    /\ \E string \in Strings(MaxSize - 1) \cup {export(loaded)} :
         /\ loaded' = importString(string)
         /\ api' = [op |-> "import", arg |-> string,
                    res |-> importString(string).items, ok |-> FALSE]
    /\ last' = "import"
    /\ UNCHANGED <<items, caret, readOnly, bound, pre, hostCalls>>

ConvNext == Export \/ Import

ConvSpec == ConvInit /\ [][ConvNext]_vars

---------------------------------------------------------------------------
(* The claims *)

\* The model the spec speaks of: each item's text (markup), checked flag and
\* level, in order.
Model(els) ==
    [i \in 1..Len(els) |->
        [text |-> InnerHTML(els[i].nodes), checked |-> els[i].checked,
         level |-> els[i].level]]

\* A markup string that trims to nothing.
Blank(text) == \A j \in 1..Len(text) : text[j] = " "

\* The live items save() must return, and the k-th of them.
Kept == {i \in 1..Len(items) : ~Blank(Model(items)[i].text)}

KeptAt(k) == CHOOSE i \in Kept : Cardinality({j \in Kept : j <= i}) = k

\* C1: whatever editing came before, save() returns no item whose trimmed
\* text is empty, and returns every live item with non-empty trimmed text, in
\* live order, with its current text, checked flag and level.
C1_SaveFiltersEmpties ==
    api.op = "save" =>
        /\ \A k \in 1..Len(api.res) : ~Blank(api.res[k].text)
        /\ Len(api.res) = Cardinality(Kept)
        /\ \A k \in 1..Len(api.res) : api.res[k] = Model(items)[KeptAt(k)]

\* save() ran on a list that holds a whitespace-only item before an item with
\* content: the first is dropped, the second returned.
C1_Witness ==
    /\ api.op = "save"
    /\ \E i, j \in 1..Len(items) :
         /\ i < j
         /\ Model(items)[i].text # <<>> /\ Blank(Model(items)[i].text)
         /\ j \in Kept
    /\ Len(api.res) >= 1

DefaultModel == <<[text |-> <<>>, checked |-> FALSE, level |-> 0]>>

Before == Model(pre.items)
After == Model(items)

\* C3: an Enter that takes the split branch on item i with the caret at
\* offset k leaves in i the text before k with i's checked flag and level,
\* makes a new unchecked item of the text after k at i's level, right after
\* i, and leaves every other item as it was; the list grows by one and the
\* two texts together are the original text.
C3_EnterSplit ==
    last = "enterSplit" =>
        LET i == pre.target
            k == CaretPos(pre.items[i].nodes, pre.caret)
        IN  /\ Len(After) = Len(Before) + 1
            /\ After[i].text = SubSeq(Before[i].text, 1, k)
            /\ After[i + 1].text = SubSeq(Before[i].text, k + 1, Len(Before[i].text))
            /\ After[i].text \o After[i + 1].text = Before[i].text
            /\ After[i].checked = Before[i].checked
            /\ After[i].level = Before[i].level
            /\ After[i + 1].checked = FALSE
            /\ After[i + 1].level = Before[i].level
            /\ \A j \in 1..Len(Before) :
                 /\ j < i => After[j] = Before[j]
                 /\ j > i => After[j + 1] = Before[j]

\* A checked item that has text and is followed by another item was split
\* with the caret after its text.
C3_Witness ==
    /\ last = "enterSplit"
    /\ pre.target < Len(pre.items)
    /\ Before[pre.target].checked
    /\ After[pre.target].text # <<>>

\* C4: a Backspace in the item an Enter-split has just created, the caret
\* still at its start, brings the model back to what it was before the
\* split: the same items in the same order, the split item with its original
\* text (as markup), checked flag and level.
C4_SplitMergeInverse ==
    (last = "backspaceMerge" /\ pre.split # <<>>) => After = Model(pre.split)

\* The split cut a text in two non-empty parts and the merge followed it.
C4_Witness ==
    /\ last = "backspaceMerge" /\ pre.split # <<>>
    /\ Before[pre.target - 1].text # <<>>
    /\ Before[pre.target].text # <<>>

EnterBranches == {"enterDecrement", "enterExit", "enterSplit"}

\* The last handler was enterPressed, in the last item, which was empty.
EnterInEmptyLastItem ==
    /\ last \in EnterBranches
    /\ pre.target = Len(pre.items)
    /\ Before[pre.target].text = <<>>

\* What the Enter-exit transition does: the current item is gone, the others
\* are as they were, and the host was asked for a new block and to focus the
\* block after this one.
ExitedBlock ==
    /\ last = "enterExit"
    /\ After = SubSeq(Before, 1, Len(Before) - 1)
    /\ Len(hostCalls) = 2
    /\ hostCalls[1].op = "insert"
    /\ hostCalls[2].op = "setToBlock"
    /\ hostCalls[2].index - 1 \in BlockIndexes

\* C5, as written: Enter in an empty last item removes it, creates no item,
\* leaves the others alone and calls the host.
C5_AsWritten == EnterInEmptyLastItem => ExitedBlock

\* C5, amended: Enter in an empty last item at level 0 removes it, creates no
\* item, leaves the others alone and calls the host.
C5_EnterExit ==
    (EnterInEmptyLastItem /\ Before[pre.target].level = 0) => ExitedBlock

\* The empty last item of a list of two was left by Enter.
C5_Witness ==
    /\ ExitedBlock
    /\ Len(After) >= 1
    /\ After[1].text # <<>>

HandlerBranches ==
    EnterBranches \cup {"enterThrow", "backspaceFirst", "backspaceOutside",
                        "backspaceNotAtStart", "backspaceMerge", "tab", "shiftTab",
                        "tabOutside", "shiftTabOutside", "toggle", "clickNoToggle",
                        "clickThrow"}

\* C6: every item's level is a non-negative integer in every state, and a
\* Shift-Tab on an item at level 0 leaves it at level 0.
C6_LevelFloor ==
    /\ \A i \in 1..Len(items) : items[i].level \in Nat
    /\ (last = "shiftTab" /\ Before[pre.target].level = 0) => After[pre.target].level = 0

C6_Witness ==
    /\ last = "shiftTab"
    /\ Before[pre.target].level = 0
    /\ After[pre.target].level = 0

\* C7: a click in an item's checkbox flips that item's checked flag and
\* changes nothing else; a second such click would bring the flag back; a
\* click elsewhere in the item changes nothing.
C7_Toggle ==
    /\ last = "toggle" =>
         /\ items = [pre.items EXCEPT ![pre.target].checked = ~pre.items[pre.target].checked]
         /\ ToggleItem(items[pre.target], "checkbox") = pre.items[pre.target]
    /\ last = "clickNoToggle" => items = pre.items

\* A checked item of a list of two items was unchecked by a click.
C7_Witness ==
    /\ last = "toggle"
    /\ Len(items) >= 2
    /\ Before[pre.target].checked /\ ~After[pre.target].checked

\* C8: validate returns false exactly when the item sequence it is given is
\* empty, and leaves the live model alone; on what save() returns it is
\* false exactly when every live item's trimmed text is empty.
C8_Validate ==
    api.op = "validate" =>
        /\ api.ok = (Len(api.arg) # 0)
        /\ items = pre.items
        /\ api.arg = Save(items).items => (~api.ok <=> Kept = {})

\* validate(save()) was false on a list whose only content is whitespace.
C8_Witness ==
    /\ api.op = "validate" /\ ~api.ok
    /\ api.arg = Save(items).items
    /\ Kept = {}
    /\ \E i \in 1..Len(items) : Model(items)[i].text # <<>>

\* C9, as written: a handler whose target is inside no checklist item raises
\* no error and leaves the model as it was.
C9_OutsideIsNoOp ==
    (last \in HandlerBranches /\ pre.target = 0) =>
        /\ last \notin {"enterThrow", "clickThrow"}
        /\ After = Before

\* What an item of the persisted array must load as.
Defaulted(it) ==
    [text |-> IF it.text.has THEN it.text.v ELSE <<>>,
     checked |-> IF it.checked.has THEN it.checked.v ELSE FALSE,
     level |-> IF it.level.def THEN it.level.n ELSE 0]

\* C10, as written: loading never throws; absent fields load as level 0,
\* checked false and text ""; data with no recoverable items (items that is
\* no array, an empty items array) loads as the default single item.
C10_GracefulLoad ==
    loaded.kind # "none" =>
        /\ last # "loadThrow"
        /\ (loaded.kind = "array" /\ loaded.items # <<>>) =>
              After = [i \in 1..Len(loaded.items) |-> Defaulted(loaded.items[i])]
        /\ (loaded.kind # "array" \/ loaded.items = <<>>) => After = DefaultModel

\* C11: in read-only mode no listener is attached, and whatever keys are
\* pressed and clicks made, the items (count, order, texts, checked flags,
\* levels) stay what was loaded, the host is not called and save() returns
\* what it returns on the loaded list.
C11_ReadOnlyFrozen ==
    readOnly =>
        /\ ~bound
        /\ loaded.kind # "none"
        /\ items = Render(loaded)
        /\ hostCalls = <<>>
        /\ api.op = "save" => api.res = Save(Render(loaded)).items

\* save() was called on a read-only list of two items, one checked, one
\* indented; then a click went unhandled.
C11_Witness ==
    /\ readOnly
    /\ last = "unhandledClick"
    /\ api.op = "save" /\ Len(api.res) = 1
    /\ \E i, j \in 1..Len(items) : i # j /\ items[i].checked /\ items[j].level > 0

\* The texts of the first n items joined with ". ", built from the last one
\* backwards; an absent text counts as "".
RECURSIVE JoinedTexts(_, _)
JoinedTexts(its, n) ==
    IF n = 0 THEN <<>>
    ELSE LET text == IF its[n].text.has THEN its[n].text.v ELSE <<>>
         IN  IF n = 1 THEN text ELSE JoinedTexts(its, n - 1) \o <<".", " ">> \o text

\* C12: export returns the item texts joined in item order with ". ",
\* whatever the levels and checked flags; import of a string s returns
\* exactly one item {text: s, checked: false, level: 0}, and export of that
\* is s again.
C12_ExportImport ==
    /\ api.op = "export" => api.res = JoinedTexts(loaded.items, Len(loaded.items))
    /\ api.op = "import" =>
          /\ Len(api.res) = 1
          /\ api.res[1] = [text |-> Present(api.arg), checked |-> Present(FALSE),
                           level |-> Num(0)]
          /\ loaded.items = api.res
          /\ export(loaded) = api.arg

\* Two items were exported: a checked one with text, then an unchecked,
\* indented one; the result ends with the separator.
C12_Witness ==
    /\ api.op = "export"
    /\ Len(loaded.items) = 2
    /\ loaded.items[1].text.v # <<>> /\ loaded.items[1].checked.v
    /\ loaded.items[2].level.n > 0 /\ ~loaded.items[2].checked.v
    /\ Len(api.res) = Len(loaded.items[1].text.v) + 2

BackspaceBranches ==
    {"backspaceFirst", "backspaceOutside", "backspaceNotAtStart", "backspaceMerge"}

\* The caret the last handler started from was at the very beginning of its
\* item's text region: no character and no element before it.
CaretAtRegionStart ==
    CaretPos(pre.items[pre.target].nodes, pre.caret) = 0

\* C13, as written: a Backspace with the caret anywhere but at the very
\* beginning of the current item's region (inside or after inline markup
\* included), or in the first item, removes no item and moves no text.
C13_BackspaceElsewhereIsNoOp ==
    (last \in BackspaceBranches /\ pre.target > 0
        /\ (pre.target = 1 \/ ~CaretAtRegionStart)) => After = Before

\* C14: a Backspace with the caret at the start of item i, i not the first,
\* makes the text of item i-1 its old text followed by the old text of item
\* i, keeps the checked flag and the level of i-1, removes item i and leaves
\* every other item as it was; the list shrinks by exactly one.
C14_BackspaceMerge ==
    (last \in BackspaceBranches /\ pre.target > 1 /\ CaretAtRegionStart) =>
        LET i == pre.target
        IN  /\ last = "backspaceMerge"
            /\ Len(After) = Len(Before) - 1
            /\ After[i - 1].text = Before[i - 1].text \o Before[i].text
            /\ After[i - 1].checked = Before[i - 1].checked
            /\ After[i - 1].level = Before[i - 1].level
            /\ \A j \in 1..Len(Before) :
                 /\ j < i - 1 => After[j] = Before[j]
                 /\ j > i => After[j - 1] = Before[j]

\* An item with text was merged into a checked item with text, its caret at
\* the start of its first text node.
C14_Witness ==
    /\ last = "backspaceMerge" /\ CaretAtRegionStart
    /\ pre.caret.node = 1
    /\ Before[pre.target].text # <<>>
    /\ Before[pre.target - 1].text # <<>>
    /\ Before[pre.target - 1].checked /\ ~Before[pre.target].checked

\* The item the last handler acted on, before it ran.
Current == Before[pre.target]

\* C15: Enter in an item whose level is above 0 and whose text is empty, the
\* last item or not, lowers that item's level by exactly 1 and does nothing
\* else: no item is created or removed, no text or checked flag changes, the
\* other items stay and the host is not called.
C15_EnterDecrement ==
    (last \in EnterBranches /\ Current.level > 0 /\ Current.text = <<>>) =>
        /\ last = "enterDecrement"
        /\ After = [Before EXCEPT ![pre.target].level = @ - 1]
        /\ \A j \in 1..Len(items) : items[j].nodes = pre.items[j].nodes
        /\ hostCalls = <<>>

\* The empty last item of a list of two, at level 1, went to level 0.
C15_Witness ==
    /\ last = "enterDecrement"
    /\ pre.target = Len(pre.items) /\ Len(pre.items) = 2
    /\ Before[1].text # <<>>
    /\ Current.level = 1 /\ After[pre.target].level = 0

\* C16: Tab raises the current item's level by exactly 1, whatever it is;
\* Shift-Tab makes it max(0, level - 1); both leave the item's text and
\* checked flag, the number and order of the items and every other item as
\* they were.
C16_TabShiftTab ==
    /\ last = "tab" => After = [Before EXCEPT ![pre.target].level = @ + 1]
    /\ last = "shiftTab" =>
          After = [Before EXCEPT ![pre.target].level = IF @ > 0 THEN @ - 1 ELSE 0]
    /\ last \in {"tab", "shiftTab"} =>
          \A j \in 1..Len(items) :
             /\ items[j].nodes = pre.items[j].nodes
             /\ items[j].checked = pre.items[j].checked

\* A checked item with text went from level 1 to level 2 by Tab.
C16_Witness ==
    /\ last = "tab"
    /\ Current.level = 1 /\ After[pre.target].level = 2
    /\ Current.checked /\ Current.text # <<>>

\* C17: Enter in an empty item at level 0 that is not the last item splits
\* it: the item stays empty at level 0, a new empty, unchecked item at level
\* 0 follows it directly, the other items stay, the list grows by one and
\* the host is not called.
C17_EnterEmptyNonLast ==
    (last \in EnterBranches /\ Current.level = 0 /\ Current.text = <<>>
        /\ pre.target < Len(pre.items)) =>
        LET i == pre.target
        IN  /\ last = "enterSplit"
            /\ Len(After) = Len(Before) + 1
            /\ After[i] = Before[i]
            /\ After[i + 1] = [text |-> <<>>, checked |-> FALSE, level |-> 0]
            /\ \A j \in 1..Len(Before) :
                 /\ j < i => After[j] = Before[j]
                 /\ j > i => After[j + 1] = Before[j]
            /\ hostCalls = <<>>

\* The empty first item of a list whose second item has text was split.
C17_Witness ==
    /\ last = "enterSplit"
    /\ pre.target = 1 /\ Len(pre.items) = 2
    /\ Current.text = <<>> /\ Current.level = 0
    /\ Len(After) = 3 /\ After[3].text # <<>>

\* C18: in every reachable state (after load, also of items whose level is
\* absent, and after every Tab, Shift-Tab, Enter-decrement and Enter-split)
\* each item's left inset is 2 times its level.
C18_InsetIsTwiceLevel ==
    \A i \in 1..Len(items) : items[i].pad = 2 * items[i].level

\* An indented item was split: the item and the new one are both at level 1
\* with inset 2.
C18_Witness ==
    /\ last = "enterSplit"
    /\ Current.level = 1
    /\ items[pre.target].pad = 2 /\ items[pre.target + 1].pad = 2

\* C19: the host is called by the Enter-exit transition only.  Each
\* Enter-exit makes exactly two calls: a block insert, then a focus request
\* for index getCurrentBlockIndex() + 1.  No other handler, call or edit
\* calls the host.
C19_HostCalls ==
    /\ last = "enterExit" =>
          /\ EnterInEmptyLastItem /\ Current.level = 0
          /\ \E currentBlockIndex \in BlockIndexes :
                hostCalls = <<[op |-> "insert", index |-> 0],
                              [op |-> "setToBlock", index |-> currentBlockIndex + 1]>>
    /\ last # "enterExit" => hostCalls = <<>>

\* The second block of the document, a checklist, was left by Enter: the
\* focus request is for index 2.
C19_Witness ==
    /\ last = "enterExit"
    /\ Len(hostCalls) = 2
    /\ hostCalls[1].op = "insert"
    /\ hostCalls[2] = [op |-> "setToBlock", index |-> 2]

\* The handlers that must not make the list shorter.
KeepingBranches ==
    {"tab", "shiftTab", "toggle", "clickNoToggle", "enterSplit", "enterDecrement"}

\* C20: a list of at least one item loses its last remaining item through
\* Enter-exit on a sole empty item only; Backspace leaves the first item in
\* place; Tab, Shift-Tab, clicks, Enter-split and Enter-decrement never
\* shorten the list; after such an exit save() returns no items and validate
\* of that is false.
C20_EmptyOnlyByExit ==
    /\ (last \in HandlerBranches /\ Len(pre.items) >= 1 /\ Len(items) = 0) =>
          /\ last = "enterExit"
          /\ Len(pre.items) = 1 /\ pre.target = 1
          /\ Before[1].text = <<>>
          /\ Save(items).items = <<>>
          /\ ~validate(Save(items))
    /\ last \in BackspaceBranches =>
          /\ Len(items) >= 1 <=> Len(pre.items) >= 1
          /\ pre.target = 1 => items = pre.items
    /\ last \in KeepingBranches => Len(items) >= Len(pre.items)
    /\ (Len(items) = 0 /\ api.op = "save") => api.res = <<>>
    /\ (Len(items) = 0 /\ api.op = "validate" /\ api.arg = Save(items).items) => ~api.ok

\* The only item, empty, was left by Enter: no item remains.
C20_Witness ==
    /\ last = "enterExit"
    /\ Len(pre.items) = 1 /\ Len(items) = 0
    /\ Save(items).items = <<>> /\ ~validate(Save(items))

====
